---- MODULE Spec2Model ----
(***************************************************************************)
(* Model of the text-mode Minesweeper of src/main.cpp: the Minesweeper     *)
(* class (construction with random mine placement and neighbour counts,    *)
(* reveal with its explicit-stack flood, is_game_over, is_game_won) and    *)
(* the interactive loop of main().                                         *)
(*                                                                         *)
(* The program is sequential; pc is the position of main():                *)
(*   construct   line 284, entering the constructor (allocation, 39-43)    *)
(*   place       the placement loop, lines 53-62                           *)
(*   print       line 285, the first game.print()                          *)
(*   loop        line 287, the while condition                             *)
(*   read        line 291, std::cin >> row >> col                          *)
(*   reveal      line 292, entering reveal(row, col) (line 226)            *)
(*   flood       the worklist loop of reveal, lines 233-257                *)
(*   render      line 293, game.print()                                    *)
(*   check_won   line 295                                                  *)
(*   check_over  line 301                                                  *)
(*   returned    line 308, return 0                                        *)
(*   aborted     an exception left main (std::terminate)                   *)
(*   crashed     undefined behaviour ended the process                     *)
(***************************************************************************)
EXTENDS Integers, Sequences, FiniteSets

VARIABLES rows, cols, num_mines,   \* Minesweeper's int fields (line 18)
          minefield,               \* minefield[r][c] (line 19)
          revealed,                \* revealed[r][c]  (line 20)
          counts,                  \* counts[r][c]    (line 21)
          num_placed,              \* the constructor's local (line 51)
          pc,                      \* position of main()
          row, col,                \* main's locals (line 289)
          stack,                   \* reveal's worklist (line 232), back = last
          cin_fail,                \* std::cin has failed (end of input, bad token)
          msgs,                    \* terminal messages written to std::cout
          screen,                  \* the board last written by print()
          pushes,                  \* elements put on the worklist by the running
                                   \* reveal call (the seed of line 232 and the
                                   \* push_back calls of line 252)
          moves                    \* moves read so far that named a hidden cell

vars == <<rows, cols, num_mines, minefield, revealed, counts, num_placed,
          pc, row, col, stack, cin_fail, msgs, screen, pushes, moves>>

\* Valid sessions (SpecInRange) are explored on boards of at most MaxCells
\* cells.
MaxCells == 8

\* Sessions with any configuration and any input (Spec) are explored on boards
\* of at most MaxCellsAnyInput cells.
MaxCellsAnyInput == 6

\* Valid sessions under fairness (SpecInRangeFair) are explored on boards of
\* at most MaxCellsFair cells.
MaxCellsFair == 6

\* Valid sessions whose worklist is taken in any order (SpecAnyOrder) are
\* explored on boards of at most MaxCellsAnyOrder cells.
MaxCellsAnyOrder == 4

WonMsg == "Congratulations! You won the game!"

LostMsg == "You Lost! Game over."

----------------------------------------------------------------------------
(* Helpers over the grid *)

RowIdx == 0 .. (rows - 1)

ColIdx == 0 .. (cols - 1)

\* The bounds test written out at lines 249-250 (and 80-81).
InBounds(r, c) == r >= 0 /\ r < rows /\ c >= 0 /\ c < cols

\* std::vector<std::vector<T>>(rows, std::vector<T>(cols, v)), lines 39-43.
Grid(v) == [r \in RowIdx |-> [c \in ColIdx |-> v]]

\* The loop nest "for i in -1..1, for j in -1..1" in its iteration order.
Offsets == << <<-1, -1>>, <<-1, 0>>, <<-1, 1>>,
              << 0, -1>>, << 0, 0>>, << 0, 1>>,
              << 1, -1>>, << 1, 0>>, << 1, 1>> >>

\* Variant of CountAt: the inner loop stops one short (j < 1 for j <= 1), so
\* mines in the column to the right are not counted.
CountAtInnerLoopShort(mf, r, c) ==
    Cardinality({k \in 1 .. Len(Offsets) :
                    /\ Offsets[k][2] < 1
                    /\ InBounds(r + Offsets[k][1], c + Offsets[k][2])
                    /\ mf[r + Offsets[k][1]][c + Offsets[k][2]]})

\* The neighbour scan of lines 75-88: every offset, the centre included.
CountAt(mf, r, c) ==
    Cardinality({k \in 1 .. Len(Offsets) :
                    /\ InBounds(r + Offsets[k][1], c + Offsets[k][2])
                    /\ mf[r + Offsets[k][1]][c + Offsets[k][2]]})

\* Variant of ComputeCountsOf: the mine test of line 69 is missing, so a mine
\* gets the count of its scan (itself included) and no sentinel.
ComputeCountsOfNoSentinel(mf) ==
    [r \in RowIdx |-> [c \in ColIdx |-> CountAt(mf, r, c)]]

\* Lines 65-91: -1 for a mine, the scan's count otherwise.
ComputeCountsOf(mf) ==
    [r \in RowIdx |-> [c \in ColIdx |->
        IF mf[r][c] THEN -1 ELSE CountAt(mf, r, c)]]

\* Lines 171-184.
is_game_over == \E r \in RowIdx, c \in ColIdx : minefield[r][c] /\ revealed[r][c]

\* Lines 197-210.
is_game_won == \A r \in RowIdx, c \in ColIdx : ~(~minefield[r][c] /\ ~revealed[r][c])

----------------------------------------------------------------------------
(* print (lines 124-158) *)

\* operator<< on an int of one digit; the boards explored have at most nine
\* rows, columns and neighbours.
Decimal(n) == <<"0", "1", "2", "3", "4", "5", "6", "7", "8", "9">>[n + 1]

\* Variant of Glyph: the sentinel is tested before the revealed flag, so a
\* hidden mine is written as "*".
GlyphTestsSentinelFirst(rev, cnt, r, c) ==
    IF cnt[r][c] = -1 THEN "*"
    ELSE IF rev[r][c] THEN Decimal(cnt[r][c]) ELSE "."

\* Lines 140-154: what is written for one cell (each followed by a space).
Glyph(rev, cnt, r, c) ==
    IF rev[r][c]
    THEN IF cnt[r][c] = -1 THEN "*" ELSE Decimal(cnt[r][c])
    ELSE "."

\* Lines 127-157: the header line of column numbers, then one line per row,
\* the row number first. A line is the sequence of its space-separated items.
Render(rev, cnt) ==
    << <<" ">> \o [c \in 1 .. cols |-> Decimal(c - 1)] >>
    \o [r \in 1 .. rows |->
          <<Decimal(r - 1)>> \o [c \in 1 .. cols |-> Glyph(rev, cnt, r - 1, c - 1)]]

----------------------------------------------------------------------------
(* reveal (lines 224-259) as pure steps *)

\* Variant of RevealMine: stepping on a mine uncovers every mine of the board.
RevealMineShowsAllMines(rev, r, c) ==
    [x \in RowIdx |-> [y \in ColIdx |-> rev[x][y] \/ minefield[x][y]]]

\* Variant of RevealMine: the flag is flipped instead of set.
RevealMineToggles(rev, r, c) == [rev EXCEPT ![r][c] = ~rev[r][c]]

\* Lines 226-229: the mine branch marks the target only.
RevealMine(rev, r, c) == [rev EXCEPT ![r][c] = TRUE]

\* Variant of FloodInit: the bitmap is treated as the flood's visited set and
\* cleared at the start of each call.
FloodInitClearsBitmap(rev, r, c) ==
    [revealed |-> Grid(FALSE), stack |-> << <<r, c>> >>]

\* Line 232: the worklist starts as the target alone; revealed is untouched.
FloodInit(rev, r, c) == [revealed |-> rev, stack |-> << <<r, c>> >>]

\* Variant of PushNeighbours: the inner loop stops one short (j < 1), so the
\* column to the right is never pushed.
PushNeighboursInnerLoopShort(stk, r, c) ==
    stk \o SelectSeq([k \in 1 .. Len(Offsets) |->
                         <<r + Offsets[k][1], c + Offsets[k][2]>>],
                     LAMBDA p : p[2] < c + 1 /\ InBounds(p[1], p[2]))

\* Variant of PushNeighbours: the outer loop stops one short (i < 1), so the
\* row below is never pushed.
PushNeighboursOuterLoopShort(stk, r, c) ==
    stk \o SelectSeq([k \in 1 .. Len(Offsets) |->
                         <<r + Offsets[k][1], c + Offsets[k][2]>>],
                     LAMBDA p : p[1] < r + 1 /\ InBounds(p[1], p[2]))

\* Lines 245-255: the in-bounds cells of the 3x3 block, pushed in scan order.
PushNeighbours(stk, r, c) ==
    stk \o SelectSeq([k \in 1 .. Len(Offsets) |->
                         <<r + Offsets[k][1], c + Offsets[k][2]>>],
                     LAMBDA p : InBounds(p[1], p[2]))

\* Variant of PopStep: the test of line 243 is missing, so the neighbours of
\* every newly revealed cell are pushed.
PopStepAlwaysPushes(rev, stk) ==
    LET r == stk[Len(stk)][1]
        c == stk[Len(stk)][2]
        rest == SubSeq(stk, 1, Len(stk) - 1)
    IN  IF rev[r][c]
        THEN [revealed |-> rev, stack |-> rest]
        ELSE [revealed |-> [rev EXCEPT ![r][c] = TRUE],
              stack |-> PushNeighbours(rest, r, c)]

\* Variant of PopStep: the test of lines 238-241 is missing, so a popped cell
\* is processed again even when it is already revealed.
PopStepNoSkip(rev, stk) ==
    LET r == stk[Len(stk)][1]
        c == stk[Len(stk)][2]
        rest == SubSeq(stk, 1, Len(stk) - 1)
    IN  [revealed |-> [rev EXCEPT ![r][c] = TRUE],
         stack |-> IF counts[r][c] = 0
                   THEN PushNeighbours(rest, r, c)
                   ELSE rest]

\* One iteration of the while loop, lines 235-256, for an in-bounds top.
PopStep(rev, stk) ==
    LET r == stk[Len(stk)][1]
        c == stk[Len(stk)][2]
        rest == SubSeq(stk, 1, Len(stk) - 1)
    IN  IF rev[r][c]
        THEN [revealed |-> rev, stack |-> rest]
        ELSE [revealed |-> [rev EXCEPT ![r][c] = TRUE],
              stack |-> IF counts[r][c] = 0
                        THEN PushNeighbours(rest, r, c)
                        ELSE rest]

\* The while loop of lines 233-257 run to its end.
RECURSIVE RunFlood(_, _)
RunFlood(rev, stk) ==
    IF stk = <<>> THEN rev
    ELSE LET s == PopStep(rev, stk) IN RunFlood(s.revealed, s.stack)

\* A whole call reveal(r, c) with an in-bounds target.
RevealCall(rev, r, c) ==
    IF minefield[r][c]
    THEN RevealMine(rev, r, c)
    ELSE LET s == FloodInit(rev, r, c) IN RunFlood(s.revealed, s.stack)

\* The worklist without its i-th element.
Remove(stk, i) == SubSeq(stk, 1, i - 1) \o SubSeq(stk, i + 1, Len(stk))

\* Variant of TakeStep: the test of line 238 looks at the newest element of
\* the worklist instead of the element taken.
TakeStepTestsTop(rev, stk, i) ==
    LET r == stk[i][1]
        c == stk[i][2]
        top == stk[Len(stk)]
        rest == Remove(stk, i)
    IN  IF rev[top[1]][top[2]]
        THEN [revealed |-> rev, stack |-> rest]
        ELSE [revealed |-> [rev EXCEPT ![r][c] = TRUE],
              stack |-> IF counts[r][c] = 0
                        THEN PushNeighbours(rest, r, c)
                        ELSE rest]

\* The loop body of lines 235-256 with the container's discipline left open:
\* the i-th element of the worklist is taken (std::stack takes the last one,
\* a queue would take the first), new elements are added at the end.
TakeStep(rev, stk, i) ==
    LET r == stk[i][1]
        c == stk[i][2]
        rest == Remove(stk, i)
    IN  IF rev[r][c]
        THEN [revealed |-> rev, stack |-> rest]
        ELSE [revealed |-> [rev EXCEPT ![r][c] = TRUE],
              stack |-> IF counts[r][c] = 0
                        THEN PushNeighbours(rest, r, c)
                        ELSE rest]

\* The while loop of lines 233-257 run to its end over a first-in-first-out
\* worklist.
RECURSIVE RunFifo(_, _)
RunFifo(rev, stk) ==
    IF stk = <<>> THEN rev
    ELSE LET s == TakeStep(rev, stk, 1) IN RunFifo(s.revealed, s.stack)

----------------------------------------------------------------------------
(* Initial states: main() has read rows, cols, num_mines (lines 278-282) *)

CellCount(R, C) == IF R > 0 /\ C > 0 THEN R * C ELSE 0

InitRest ==
    /\ minefield = <<>>
    /\ revealed = <<>>
    /\ counts = <<>>
    /\ num_placed = 0
    /\ pc = "construct"
    /\ row = 0
    /\ col = 0
    /\ stack = <<>>
    /\ cin_fail = FALSE
    /\ msgs = <<>>
    /\ screen = <<>>
    /\ pushes = 0
    /\ moves = 0

Init ==
    /\ rows \in -1 .. MaxCellsAnyInput
    /\ cols \in -1 .. MaxCellsAnyInput
    /\ CellCount(rows, cols) <= MaxCellsAnyInput
    /\ num_mines \in -1 .. (CellCount(rows, cols) + 1)
    /\ InitRest

InitValid ==
    /\ rows \in 1 .. MaxCells
    /\ cols \in 1 .. MaxCells
    /\ rows * cols <= MaxCells
    /\ num_mines \in 0 .. (rows * cols)
    /\ InitRest

----------------------------------------------------------------------------
(* The constructor, lines 36-92 *)

\* Lines 39-43 with a negative size: the vector constructor throws
\* (std::length_error or std::bad_alloc); nothing catches it.
ConstructThrows ==
    /\ pc = "construct"
    /\ (rows < 0 \/ cols < 0)
    /\ pc' = "aborted"
    /\ UNCHANGED <<rows, cols, num_mines, minefield, revealed, counts,
                   num_placed, row, col, stack, cin_fail, msgs>>
    /\ UNCHANGED <<screen, pushes, moves>>

\* Lines 39-51: the three grids are allocated and num_placed starts at 0.
Construct ==
    /\ pc = "construct"
    /\ rows >= 0 /\ cols >= 0
    /\ minefield' = Grid(FALSE)
    /\ revealed' = Grid(FALSE)
    /\ counts' = Grid(0)
    /\ num_placed' = 0
    /\ pc' = "place"
    /\ UNCHANGED <<rows, cols, num_mines, row, col, stack, cin_fail, msgs>>
    /\ UNCHANGED <<screen, pushes, moves>>

\* Variant of PlaceStep: num_placed++ sits after the if, so a collision counts.
PlaceStepCountsCollision(mf, n, r, c) ==
    [minefield |-> [mf EXCEPT ![r][c] = TRUE], num_placed |-> n + 1]

\* Lines 57-61: the body of the placement loop for a drawn (r, c).
PlaceStep(mf, n, r, c) ==
    IF ~mf[r][c]
    THEN [minefield |-> [mf EXCEPT ![r][c] = TRUE], num_placed |-> n + 1]
    ELSE [minefield |-> mf, num_placed |-> n]

\* Lines 53-62: one iteration; row_dist and col_dist draw from [0, rows-1]
\* and [0, cols-1].
PlaceMine ==
    /\ pc = "place"
    /\ num_placed < num_mines
    /\ rows >= 1 /\ cols >= 1
    /\ \E r \in RowIdx, c \in ColIdx :
          LET s == PlaceStep(minefield, num_placed, r, c)
          IN  /\ minefield' = s.minefield
              /\ num_placed' = s.num_placed
    /\ UNCHANGED <<rows, cols, num_mines, revealed, counts, pc, row, col,
                   stack, cin_fail, msgs>>
    /\ UNCHANGED <<screen, pushes, moves>>

\* Lines 48-59 on a grid without cells: uniform_int_distribution(0, -1) breaks
\* its precondition and minefield[row][col] indexes an empty vector. The read
\* yields either value, the write lands outside the grid, or the process dies.
PlaceOutOfRange ==
    /\ pc = "place"
    /\ num_placed < num_mines
    /\ (rows = 0 \/ cols = 0)
    /\ \/ pc' = "crashed" /\ UNCHANGED num_placed
       \/ pc' = pc /\ num_placed' = num_placed + 1
       \/ pc' = pc /\ UNCHANGED num_placed
    /\ UNCHANGED <<rows, cols, num_mines, minefield, revealed, counts, row,
                   col, stack, cin_fail, msgs>>
    /\ UNCHANGED <<screen, pushes, moves>>

\* Lines 53 (loop exit) and 65-91.
ComputeCounts ==
    /\ pc = "place"
    /\ ~(num_placed < num_mines)
    /\ counts' = ComputeCountsOf(minefield)
    /\ pc' = "print"
    /\ UNCHANGED <<rows, cols, num_mines, minefield, revealed, num_placed,
                   row, col, stack, cin_fail, msgs>>
    /\ UNCHANGED <<screen, pushes, moves>>

----------------------------------------------------------------------------
(* main(), lines 284-308 *)

\* Line 285: print() is const; it changes nothing of the game.
PrintInitial ==
    /\ pc = "print"
    /\ pc' = "loop"
    /\ UNCHANGED <<rows, cols, num_mines, minefield, revealed, counts,
                   num_placed, row, col, stack, cin_fail, msgs>>
    /\ screen' = Render(revealed, counts)
    /\ UNCHANGED <<pushes, moves>>

\* Line 287.
LoopTest ==
    /\ pc = "loop"
    /\ pc' = IF is_game_over THEN "returned" ELSE "read"
    /\ UNCHANGED <<rows, cols, num_mines, minefield, revealed, counts,
                   num_placed, row, col, stack, cin_fail, msgs>>
    /\ UNCHANGED <<screen, pushes, moves>>

\* Line 291, two integers extracted, naming a cell of the board.
ReadInRange ==
    /\ pc = "read"
    /\ ~cin_fail
    /\ \E r \in RowIdx, c \in ColIdx :
          /\ row' = r /\ col' = c
          /\ moves' = IF revealed[r][c] THEN moves ELSE moves + 1
    /\ pc' = "reveal"
    /\ UNCHANGED <<rows, cols, num_mines, minefield, revealed, counts,
                   num_placed, stack, cin_fail, msgs>>
    /\ UNCHANGED <<screen, pushes>>

\* Line 291, two integers extracted, naming no cell of the board.
ReadOutOfRange ==
    /\ pc = "read"
    /\ ~cin_fail
    /\ \E r \in -1 .. rows, c \in -1 .. cols :
          ~InBounds(r, c) /\ row' = r /\ col' = c
    /\ pc' = "reveal"
    /\ UNCHANGED <<rows, cols, num_mines, minefield, revealed, counts,
                   num_placed, stack, cin_fail, msgs>>
    /\ UNCHANGED <<screen, pushes, moves>>

\* Line 291 at the end of the input or on a token that is no integer: the
\* extraction fails, the stream stays failed, nothing tests it, and row and col
\* (declared without initialiser at line 289) hold indeterminate values.
ReadFail ==
    /\ pc = "read"
    /\ cin_fail' = TRUE
    /\ \E r \in -1 .. rows, c \in -1 .. cols : row' = r /\ col' = c
    /\ pc' = "reveal"
    /\ UNCHANGED <<rows, cols, num_mines, minefield, revealed, counts,
                   num_placed, stack, msgs>>
    /\ UNCHANGED <<screen, pushes, moves>>

\* Variant of RevealMineCell: the mine that is stepped on is taken off the
\* board.
RevealMineCellDefusesMine ==
    /\ pc = "reveal"
    /\ InBounds(row, col)
    /\ minefield[row][col]
    /\ minefield' = [minefield EXCEPT ![row][col] = FALSE]
    /\ revealed' = RevealMine(revealed, row, col)
    /\ pc' = "render"
    /\ UNCHANGED <<rows, cols, num_mines, counts, num_placed, row,
                   col, stack, cin_fail, msgs>>
    /\ UNCHANGED <<screen, pushes, moves>>

\* Lines 226-229: reveal on a mine.
RevealMineCell ==
    /\ pc = "reveal"
    /\ InBounds(row, col)
    /\ minefield[row][col]
    /\ revealed' = RevealMine(revealed, row, col)
    /\ pc' = "render"
    /\ UNCHANGED <<rows, cols, num_mines, minefield, counts, num_placed, row,
                   col, stack, cin_fail, msgs>>
    /\ UNCHANGED <<screen, pushes, moves>>

\* Lines 226, 230-232: reveal on a cell that is no mine starts the worklist.
RevealSafeCell ==
    /\ pc = "reveal"
    /\ InBounds(row, col)
    /\ ~minefield[row][col]
    /\ LET s == FloodInit(revealed, row, col)
       IN  revealed' = s.revealed /\ stack' = s.stack
    /\ pc' = "flood"
    /\ UNCHANGED <<rows, cols, num_mines, minefield, counts, num_placed, row,
                   col, cin_fail, msgs>>
    /\ pushes' = Len(stack')
    /\ UNCHANGED <<screen, moves>>

\* Line 226 with (row, col) outside the grid: minefield[row][col] is an
\* unchecked read. It yields true (then line 228 writes outside the grid's
\* storage), or false (the worklist starts at the cell), or the process dies.
RevealOutOfRange ==
    /\ pc = "reveal"
    /\ ~InBounds(row, col)
    /\ \/ pc' = "crashed" /\ UNCHANGED <<revealed, stack, pushes>>
       \/ pc' = "render" /\ UNCHANGED <<revealed, stack, pushes>>
       \/ /\ pc' = "flood"
          /\ stack' = << <<row, col>> >>
          /\ pushes' = 1
          /\ UNCHANGED revealed
    /\ UNCHANGED <<rows, cols, num_mines, minefield, counts, num_placed, row,
                   col, cin_fail, msgs>>
    /\ UNCHANGED <<screen, moves>>

\* Lines 233-256: one iteration of the worklist loop.
FloodStep ==
    /\ pc = "flood"
    /\ stack # <<>>
    /\ InBounds(stack[Len(stack)][1], stack[Len(stack)][2])
    /\ LET s == PopStep(revealed, stack)
       IN  revealed' = s.revealed /\ stack' = s.stack
    /\ UNCHANGED <<rows, cols, num_mines, minefield, counts, num_placed, pc,
                   row, col, cin_fail, msgs>>
    /\ pushes' = pushes + (Len(stack') - (Len(stack) - 1))
    /\ UNCHANGED <<screen, moves>>

\* Lines 233-256 when the popped cell lies outside the grid (only the seed of
\* an out-of-range call can): revealed[r][c] and counts[r][c] are unchecked
\* reads and line 242 a write outside the grid's storage; the pushes of
\* 249-252 stay checked. The cell reads as revealed or as numbered (popped,
\* nothing pushed), or as a hidden zero (its in-bounds neighbours are pushed),
\* or the process dies.
FloodStepOutOfRange ==
    /\ pc = "flood"
    /\ stack # <<>>
    /\ ~InBounds(stack[Len(stack)][1], stack[Len(stack)][2])
    /\ LET r == stack[Len(stack)][1]
           c == stack[Len(stack)][2]
           rest == SubSeq(stack, 1, Len(stack) - 1)
       IN  \/ pc' = "crashed" /\ UNCHANGED <<revealed, stack, pushes>>
           \/ pc' = pc /\ stack' = rest /\ UNCHANGED <<revealed, pushes>>
           \/ /\ pc' = pc
              /\ stack' = PushNeighbours(rest, r, c)
              /\ pushes' = pushes + (Len(stack') - Len(rest))
              /\ UNCHANGED revealed
    /\ UNCHANGED <<rows, cols, num_mines, minefield, counts, num_placed, row,
                   col, cin_fail, msgs>>
    /\ UNCHANGED <<screen, moves>>

\* Line 233 with the worklist empty: reveal returns and the worklist is gone.
FloodDone ==
    /\ pc = "flood"
    /\ stack = <<>>
    /\ pc' = "render"
    /\ UNCHANGED <<rows, cols, num_mines, minefield, revealed, counts,
                   num_placed, row, col, stack, cin_fail, msgs>>
    /\ pushes' = 0
    /\ UNCHANGED <<screen, moves>>

\* One iteration of lines 233-256 that takes any element of the worklist.
FloodStepAny ==
    /\ pc = "flood"
    /\ stack # <<>>
    /\ \E i \in 1 .. Len(stack) :
          LET s == TakeStep(revealed, stack, i)
          IN  revealed' = s.revealed /\ stack' = s.stack
    /\ pushes' = pushes + (Len(stack') - (Len(stack) - 1))
    /\ UNCHANGED <<rows, cols, num_mines, minefield, counts, num_placed, pc,
                   row, col, cin_fail, msgs, screen, moves>>

\* Line 293.
PrintBoard ==
    /\ pc = "render"
    /\ pc' = "check_won"
    /\ UNCHANGED <<rows, cols, num_mines, minefield, revealed, counts,
                   num_placed, row, col, stack, cin_fail, msgs>>
    /\ screen' = Render(revealed, counts)
    /\ UNCHANGED <<pushes, moves>>

\* Variant of CheckWon: the break of line 298 is missing, so the loss test
\* follows the victory message.
CheckWonFallsThrough ==
    /\ pc = "check_won"
    /\ msgs' = IF is_game_won THEN Append(msgs, WonMsg) ELSE msgs
    /\ pc' = "check_over"
    /\ UNCHANGED <<rows, cols, num_mines, minefield, revealed, counts,
                   num_placed, row, col, stack, cin_fail>>
    /\ UNCHANGED <<screen, pushes, moves>>

\* Lines 295-299.
CheckWon ==
    /\ pc = "check_won"
    /\ IF is_game_won
       THEN msgs' = Append(msgs, WonMsg) /\ pc' = "returned"
       ELSE msgs' = msgs /\ pc' = "check_over"
    /\ UNCHANGED <<rows, cols, num_mines, minefield, revealed, counts,
                   num_placed, row, col, stack, cin_fail>>
    /\ UNCHANGED <<screen, pushes, moves>>

\* Variant of CheckOver: the break of line 304 is missing, so the loop is left
\* through its condition at line 287.
CheckOverLeavesByGuard ==
    /\ pc = "check_over"
    /\ msgs' = IF is_game_over THEN Append(msgs, LostMsg) ELSE msgs
    /\ pc' = "loop"
    /\ UNCHANGED <<rows, cols, num_mines, minefield, revealed, counts,
                   num_placed, row, col, stack, cin_fail>>
    /\ UNCHANGED <<screen, pushes, moves>>

\* Lines 301-305.
CheckOver ==
    /\ pc = "check_over"
    /\ IF is_game_over
       THEN msgs' = Append(msgs, LostMsg) /\ pc' = "returned"
       ELSE msgs' = msgs /\ pc' = "loop"
    /\ UNCHANGED <<rows, cols, num_mines, minefield, revealed, counts,
                   num_placed, row, col, stack, cin_fail>>
    /\ UNCHANGED <<screen, pushes, moves>>

----------------------------------------------------------------------------
(* Specifications *)

\* Every configuration and every input the operator can type.
Next ==
    \/ ConstructThrows
    \/ Construct
    \/ PlaceMine
    \/ PlaceOutOfRange
    \/ ComputeCounts
    \/ PrintInitial
    \/ LoopTest
    \/ ReadInRange
    \/ ReadOutOfRange
    \/ ReadFail
    \/ RevealMineCell
    \/ RevealSafeCell
    \/ RevealOutOfRange
    \/ FloodStep
    \/ FloodStepOutOfRange
    \/ FloodDone
    \/ PrintBoard
    \/ CheckWon
    \/ CheckOver

Spec == Init /\ [][Next]_vars

\* Valid configurations (R, C >= 1, 0 <= M <= R*C) and moves that name cells
\* of the board.
NextInRange ==
    \/ Construct
    \/ PlaceMine
    \/ ComputeCounts
    \/ PrintInitial
    \/ LoopTest
    \/ ReadInRange
    \/ RevealMineCell
    \/ RevealSafeCell
    \/ FloodStep
    \/ FloodDone
    \/ PrintBoard
    \/ CheckWon
    \/ CheckOver

SpecInRange == InitValid /\ [][NextInRange]_vars

InitValidFair ==
    /\ rows \in 1 .. MaxCellsFair
    /\ cols \in 1 .. MaxCellsFair
    /\ rows * cols <= MaxCellsFair
    /\ num_mines \in 0 .. (rows * cols)
    /\ InitRest

\* The same sessions; a reveal call that has started keeps running: the
\* worklist loop takes its next iteration and returns when the list is empty.
SpecInRangeFair ==
    /\ InitValidFair
    /\ [][NextInRange]_vars
    /\ WF_vars(FloodStep)
    /\ WF_vars(FloodDone)

\* The sessions of SpecInRange with the worklist of reveal taken in any order.
NextAnyOrder ==
    \/ Construct
    \/ PlaceMine
    \/ ComputeCounts
    \/ PrintInitial
    \/ LoopTest
    \/ ReadInRange
    \/ RevealMineCell
    \/ RevealSafeCell
    \/ FloodStepAny
    \/ FloodDone
    \/ PrintBoard
    \/ CheckWon
    \/ CheckOver

InitAnyOrder ==
    /\ rows \in 1 .. MaxCellsAnyOrder
    /\ cols \in 1 .. MaxCellsAnyOrder
    /\ rows * cols <= MaxCellsAnyOrder
    /\ num_mines \in 0 .. (rows * cols)
    /\ InitRest

SpecAnyOrder == InitAnyOrder /\ [][NextAnyOrder]_vars

----------------------------------------------------------------------------
(* Vocabulary of the properties *)

Cells == RowIdx \X ColIdx

\* The in-bounds Moore neighbours of a cell.
Nbrs(x) ==
    {y \in Cells : y # x /\ y[1] - x[1] \in -1 .. 1 /\ y[2] - x[2] \in -1 .. 1}

\* The least set that contains F and the neighbours of each of its count-0 cells.
RECURSIVE ZeroClosure(_)
ZeroClosure(F) ==
    LET G == F \cup UNION {Nbrs(x) : x \in {z \in F : counts[z[1]][z[2]] = 0}}
    IN  IF G = F THEN F ELSE ZeroClosure(G)

MineCells == {x \in Cells : minefield[x[1]][x[2]]}

RevealedCells == {x \in Cells : revealed[x[1]][x[2]]}

\* The grids exist (the constructor has allocated them).
Built == pc \notin {"construct", "aborted"}

\* reveal(row, col) has just returned to main().
RevealReturned == pc = "render"

----------------------------------------------------------------------------
(* Properties *)

\* C1 (flood safety): while reveal(row, col) floods from an in-range non-mine
\* target, no step changes the revealed flag of a mine cell, so is_game_over()
\* keeps its value through the whole call; and is_game_over() turns true only
\* in a reveal whose target is a mine, so it stays false as long as the reveals
\* target non-mine cells.
C1_FloodSafety ==
    [][Built =>
         /\ (pc = "flood" /\ InBounds(row, col) /\ ~minefield[row][col])
              => /\ \A x \in MineCells :
                       revealed'[x[1]][x[2]] = revealed[x[1]][x[2]]
                 /\ is_game_over' = is_game_over
         /\ (~is_game_over /\ is_game_over')
              => (pc = "reveal" /\ InBounds(row, col) /\ minefield[row][col])]_vars

\* A flood on a board with mines that has uncovered cells beyond its target.
C1_Witness ==
    /\ pc = "flood"
    /\ MineCells # {}
    /\ counts[row][col] = 0
    /\ Cardinality(RevealedCells) >= 3

\* C2 (flood closure) as stated: when reveal(row, col) returns on an in-range
\* non-mine cell, every cell joined to (row, col) by a path of adjacent cells
\* whose interior cells (the cells strictly between its two ends) have count 0
\* is revealed.
C2_FloodClosureAsStated ==
    (RevealReturned /\ InBounds(row, col) /\ ~minefield[row][col])
        => ZeroClosure({<<row, col>>} \cup Nbrs(<<row, col>>)) \subseteq RevealedCells

\* C2 (flood closure) amended: when reveal(row, col) returns on an in-range
\* non-mine cell, every cell joined to (row, col) by a path of adjacent cells
\* whose cells before the last one, (row, col) included, have count 0 is
\* revealed.
C2_FloodClosure ==
    (RevealReturned /\ InBounds(row, col) /\ ~minefield[row][col])
        => ZeroClosure({<<row, col>>}) \subseteq RevealedCells

\* A returned flood from a count-0 cell that stopped at numbered cells and left
\* safe cells hidden.
C2_Witness ==
    /\ RevealReturned
    /\ ~minefield[row][col]
    /\ counts[row][col] = 0
    /\ Cardinality(ZeroClosure({<<row, col>>})) >= 3
    /\ ~is_game_won

\* C3 (monotone reveal): no step, a worklist step of reveal included, sets a
\* revealed flag back to false.
C3_MonotoneReveal ==
    [][Built => \A x \in Cells : revealed[x[1]][x[2]] => revealed'[x[1]][x[2]]]_vars

\* A later reveal call is flooding a hidden cell while cells uncovered by an
\* earlier call are on the board.
C3_Witness ==
    /\ pc = "flood"
    /\ stack = << <<row, col>> >>
    /\ ~revealed[row][col]
    /\ RevealedCells # {}

\* C4 (out-of-range reveal): a request outside the grid is reported, leaves
\* the bitmap, the layout and the counts as they are, and the loop goes on to
\* the next input.
C4_OutOfRangeRejected ==
    [][(pc = "reveal" /\ ~InBounds(row, col))
         => /\ revealed' = revealed
            /\ minefield' = minefield
            /\ counts' = counts
            /\ Len(msgs') = Len(msgs) + 1
            /\ pc' \in {"loop", "read"}]_vars

\* C5 (invalid configuration): with M > R*C, R <= 0 or C <= 0 the session
\* never gets past construction: it is rejected there and aborts, and the
\* placement loop is never entered.
C5_InvalidConfigRejected ==
    (rows <= 0 \/ cols <= 0 \/ num_mines > CellCount(rows, cols))
        => pc \in {"construct", "aborted"}

\* C6 (end of input): once the input has failed the session performs no
\* further reveal.
C6_EndOfInputStops == cin_fail => pc \notin {"reveal", "flood"}

\* C7 (won and over never coincide): under in-range moves on a valid board
\* is_game_won() and is_game_over() are never both true, and the victory
\* message is never printed while a mine is revealed.
C7_WonAndOverDisjoint ==
    (Built /\ pc # "place")
        => /\ ~(is_game_won /\ is_game_over)
           /\ (\E k \in 1 .. Len(msgs) : msgs[k] = WonMsg) => ~is_game_over

\* C8 (mine reveal is local): reveal on an in-range mine sets the flag of that
\* cell and of no other, and is_game_over() is true when it returns.
C8_MineRevealLocal ==
    [][(pc = "reveal" /\ InBounds(row, col) /\ minefield[row][col])
         => /\ revealed' = [revealed EXCEPT ![row][col] = TRUE]
            /\ is_game_over'
            /\ pc' = "render"]_vars

\* A mine has just been revealed on a board with other mines and with cells
\* uncovered before.
C8_Witness ==
    /\ RevealReturned
    /\ minefield[row][col]
    /\ revealed[row][col]
    /\ Cardinality(MineCells) >= 2
    /\ Cardinality(RevealedCells) >= 2

\* C9 (idempotence): when reveal(row, col) has returned, calling it again
\* changes nothing; in every state of the session reveal on a cell that is
\* already revealed, mine or not, changes nothing; and from every state in
\* which main() is about to read a move or has just got a reveal back, two
\* calls of reveal on any cell leave the bitmap that one call leaves.
C9_Idempotence ==
    (Built /\ pc # "place")
        => /\ RevealReturned => RevealCall(revealed, row, col) = revealed
           /\ \A x \in RevealedCells : RevealCall(revealed, x[1], x[2]) = revealed
           /\ pc \in {"read", "render"} =>
                 \A x \in Cells :
                    LET once == RevealCall(revealed, x[1], x[2])
                    IN  RevealCall(once, x[1], x[2]) = once

\* reveal has been entered on a cell revealed by an earlier call.
C9_Witness ==
    /\ pc = "flood"
    /\ stack = << <<row, col>> >>
    /\ revealed[row][col]
    /\ Cardinality(RevealedCells) >= 2

\* C10 (placement): in the placement loop num_placed is the number of mine
\* cells and never exceeds M; once the loop has exited exactly M cells of the
\* R x C grid are mines.
C10_Placement ==
    Built => /\ DOMAIN minefield = RowIdx
             /\ \A r \in RowIdx : DOMAIN minefield[r] = ColIdx
             /\ pc = "place" =>
                   num_placed = Cardinality(MineCells) /\ num_placed <= num_mines
             /\ pc # "place" => Cardinality(MineCells) = num_mines

\* The placement loop has exited with several mines on a board that has safe
\* cells left.
C10_Witness ==
    /\ pc = "print"
    /\ num_mines >= 2
    /\ Cardinality(MineCells) < Cardinality(Cells)

\* The counts are those the claim states: -1 exactly on the mines, elsewhere
\* the number of mines among the in-bounds Moore neighbours, the cell itself
\* left out.
CountsAsStated ==
    LET mines == MineCells
    IN  \A x \in Cells :
          /\ counts[x[1]][x[2]] = -1 <=> minefield[x[1]][x[2]]
          /\ ~minefield[x[1]][x[2]] =>
                /\ counts[x[1]][x[2]] = Cardinality(Nbrs(x) \cap mines)
                /\ counts[x[1]][x[2]] \in 0 .. 8

\* C11 (count correctness): once the constructor has returned, count(r,c) is
\* -1 exactly for the mines, and for every other cell it is the number of mines
\* among the cell's in-bounds Moore neighbours, the cell itself left out, a
\* value in 0..8: this holds when the constructor returns, and no later step
\* changes the mines or the counts.
C11_CountCorrectness ==
    /\ [](pc = "print" => CountsAsStated)
    /\ [][(pc = "place" /\ pc' # "place") => CountsAsStated']_vars
    /\ [][(Built /\ pc # "place")
             => /\ counts' = counts
                /\ minefield' = minefield
                /\ rows' = rows
                /\ cols' = cols
                /\ Built' /\ pc' # "place"]_vars

\* A constructed board with a count-0 cell and a cell that counts several mines.
C11_Witness ==
    /\ pc = "print"
    /\ \E x \in Cells : counts[x[1]][x[2]] = 0
    /\ \E x \in Cells : counts[x[1]][x[2]] >= 2

\* C12 (session step protocol): a reveal is followed by the rendering, then the
\* win test, then (only if not won) the loss test, then (only if not over) the
\* next read; the win branch prints the victory message and stops, the loss
\* branch prints the loss message and stops; at most one terminal message is
\* ever printed and nothing is revealed after it.
C12_StepProtocol ==
    /\ [](Len(msgs) <= 1 /\ (msgs # <<>> => pc = "returned"))
    /\ [][/\ (pc \in {"reveal", "flood"} /\ pc' # pc) => pc' \in {"flood", "render"}
          /\ pc = "render" => pc' = "check_won" /\ msgs' = msgs
          /\ pc = "check_won" =>
                IF is_game_won
                THEN msgs' = Append(msgs, WonMsg) /\ pc' = "returned"
                ELSE msgs' = msgs /\ pc' = "check_over"
          /\ pc = "check_over" =>
                IF is_game_over
                THEN msgs' = Append(msgs, LostMsg) /\ pc' = "returned"
                ELSE msgs' = msgs /\ pc' = "loop"
          /\ (pc = "loop" /\ ~is_game_over) => pc' = "read"
          /\ msgs # <<>> => revealed' = revealed /\ pc' = pc]_vars

\* A session that went through several moves and ended with the loss message.
C12_Witness ==
    /\ pc = "returned"
    /\ msgs = <<LostMsg>>
    /\ Cardinality(RevealedCells) >= 3

\* C13 (board immutability): once the constructor has returned no step changes
\* the mine layout, the counts or R, C, M; and the steps of print, is_game_over
\* and is_game_won leave the revealed bitmap as it is.
C13_BoardImmutable ==
    [][(Built /\ pc # "place")
         => /\ minefield' = minefield
            /\ counts' = counts
            /\ rows' = rows /\ cols' = cols /\ num_mines' = num_mines
            /\ pc \in {"print", "loop", "render", "check_won", "check_over"}
                  => revealed' = revealed]_vars

\* The loop is back at its head after a reveal on a board with mines: reveal,
\* print, is_game_won and is_game_over have all run.
C13_Witness ==
    /\ pc = "loop"
    /\ RevealedCells # {}
    /\ MineCells # {}

C17_ZeroCellClosure ==
    []((Built /\ pc \notin {"place", "flood"})
        => LET shown == RevealedCells
           IN  \A x \in shown :
                 counts[x[1]][x[2]] = 0 => Nbrs(x) \subseteq shown)

\* Between two moves a count-0 cell is revealed and the game is not won.
C17_Witness ==
    /\ pc = "read"
    /\ \E x \in RevealedCells : counts[x[1]][x[2]] = 0
    /\ MineCells # {}

\* C15 (worklist order independence): for every board, reveal state and
\* in-range non-mine target, whichever element of the worklist each iteration
\* takes, the bitmap the implemented last-in-first-out loop would end with is
\* the same before and after the iteration, a first-in-first-out loop would
\* end with that bitmap too, and the loop is left with exactly that bitmap;
\* so every order ends with the bitmap RevealCall, the loop as implemented,
\* produces from the state the call started in.
C15_OrderIndependence ==
    /\ [](pc = "flood" => RunFifo(revealed, stack) = RunFlood(revealed, stack))
    /\ [][/\ (pc = "reveal" /\ ~minefield[row][col])
               => RunFlood(revealed', stack') = RevealCall(revealed, row, col)
          /\ (pc = "flood" /\ stack # <<>>)
               => RunFlood(revealed', stack') = RunFlood(revealed, stack)
          /\ (pc = "flood" /\ stack = <<>>)
               => revealed' = RunFlood(revealed, stack)]_vars

\* The oldest element of the worklist lies below or to the right of the
\* target while cells are still to be revealed. The bottom of a stack is the
\* target or the first neighbour pushed for the previous bottom, never below
\* or right of the target: elements have been taken in an order no stack
\* produces.
C15_Witness ==
    /\ pc = "flood"
    /\ stack # <<>>
    /\ (stack[1][1] > row \/ stack[1][2] > col)
    /\ revealed # RunFlood(revealed, stack)
    /\ MineCells # {}

HiddenCount == Cardinality(Cells \ RevealedCells)

\* C16 (flood termination): a reveal call that floods comes back to main(),
\* and only with its worklist empty; every iteration either reveals one hidden
\* cell or shortens the worklist, cells are pushed only by the iteration that
\* reveals a cell (so at most once per cell), and a call puts at most
\* 1 + 9*R*C elements on the worklist.
C16_FloodTermination ==
    /\ [](pc = "flood" => pushes <= 1 + 9 * rows * cols /\ Len(stack) <= pushes)
    /\ [][pc = "flood" =>
            IF stack = <<>>
            THEN pc' = "render" /\ revealed' = revealed
            ELSE /\ pc' = "flood"
                 /\ \/ HiddenCount' = HiddenCount - 1
                    \/ HiddenCount' = HiddenCount /\ Len(stack') < Len(stack)
                 /\ Len(stack') >= Len(stack) => revealed' # revealed
                 /\ pushes' > pushes => revealed' # revealed]_vars
    /\ (pc = "flood") ~> (pc = "render")

\* A flood that revealed several cells has emptied its worklist after more
\* pushes than the board has cells.
C16_Witness ==
    /\ pc = "flood"
    /\ stack = <<>>
    /\ pushes > rows * cols
    /\ MineCells # {}

MoveBound ==
    IF rows * cols - num_mines > 1 THEN rows * cols - num_mines ELSE 1

\* C18 (session progress): a reveal of a hidden in-range cell reveals that
\* cell, so the moves that named a hidden cell never outnumber the revealed
\* cells; such moves number at most max(1, R*C - M), with one still to spare
\* whenever a move is about to be read; is_game_over() is false at the head of
\* the loop, and the session returns only after a terminal message.
C18_SessionProgress ==
    /\ []((Built /\ pc # "place") =>
            /\ moves <= MoveBound
            /\ pc = "read" => moves + 1 <= MoveBound
            /\ pc \in {"render", "check_won", "check_over", "loop", "read",
                       "returned"} => moves <= Cardinality(RevealedCells)
            /\ pc = "loop" => ~is_game_over
            /\ pc = "returned" => Len(msgs) = 1)
    /\ [][/\ (pc = "reveal" /\ minefield[row][col]) => revealed'[row][col]
          /\ (pc = "flood" /\ stack = << <<row, col>> >>) => revealed'[row][col]
          /\ (pc = "loop") => pc' = "read"]_vars

\* A session won by three or more moves on hidden cells.
C18_Witness ==
    /\ pc = "returned"
    /\ msgs = <<WonMsg>>
    /\ moves >= 3
    /\ MineCells # {}

\* The counts with the entry of every hidden cell replaced by v.
MaskHidden(rev, cnt, v) ==
    [r \in RowIdx |-> [c \in ColIdx |-> IF rev[r][c] THEN cnt[r][c] ELSE v]]

\* The board on the screen is the rendering of the revealed bitmap and of the
\* revealed cells' counts alone (the hidden cells' entries blanked out, by the
\* mine marker or by the largest count), the glyph print computes for a
\* hidden cell is the one on the screen whatever value the cell is given, and
\* the glyphs are as stated.
ScreenHidesHidden ==
    /\ \A v \in {-1, 8} :
          screen = Render(revealed, MaskHidden(revealed, counts, v))
    /\ \A h \in Cells \ RevealedCells : \A v \in -1 .. 8 :
          Glyph(revealed, [counts EXCEPT ![h[1]][h[2]] = v], h[1], h[2])
             = screen[h[1] + 2][h[2] + 2]
    /\ LET mines == MineCells
       IN  \A x \in Cells :
             screen[x[1] + 2][x[2] + 2] =
                IF ~revealed[x[1]][x[2]] THEN "."
                ELSE IF minefield[x[1]][x[2]] THEN "*"
                ELSE Decimal(Cardinality(Nbrs(x) \cap mines))

\* C19 (rendering discloses nothing about hidden cells): the board a print
\* (the first one or the one after a reveal) puts on the screen is the one
\* computed from R, C, the revealed bitmap and the counts of the revealed
\* cells alone: it stays the same whatever value (mine marker or count) the
\* hidden cells are given, so two games that agree on R, C, the bitmap and the
\* revealed cells' counts show the same board; a hidden cell is shown as ".",
\* a revealed mine as "*", a revealed non-mine cell as its count.
C19_RenderHidesHidden ==
    [][(pc \in {"print", "render"}) => ScreenHidesHidden']_vars

\* A board has just been printed that shows a revealed mine and a revealed
\* count while another mine and a safe cell are hidden.
C19_Witness ==
    /\ pc = "check_won"
    /\ \E x \in MineCells : revealed[x[1]][x[2]]
    /\ \E x \in MineCells : ~revealed[x[1]][x[2]]
    /\ \E x \in Cells \ MineCells : revealed[x[1]][x[2]]
    /\ \E x \in Cells \ MineCells : ~revealed[x[1]][x[2]]

====
